---- MODULE Spec2Model ----
(***************************************************************************)
(* WidgetRenderer (packages/jupyterlab-manager/src/renderer.ts): the mime  *)
(* renderer that resolves a widget model id through the widget manager and *)
(* attaches the view it gets to its own node.                              *)
(*                                                                         *)
(* One renderModel call is a record of `calls`; it advances from one await *)
(* to the next, and every other operation may run between two awaits.      *)
(* The widget manager (./manager) is the environment: get_model and        *)
(* display_model settle either way, restoredStatus changes and `restored`  *)
(* is emitted at any time.                                                 *)
(***************************************************************************)
EXTENDS Naturals, Sequences, FiniteSets

\* Bound of the model: renderModel calls made in one behaviour (host + _rerender).
MaxCalls == 2

\* The managers the host may hand to the setter, and the mime models it renders.
Managers == {"M1", "M2"}
Bundles == {"b1", "b2"}

\* A null reference; the PromiseDelegate before resolve().
Null == "null"
Unresolved == "unresolved"

\* The three texts renderModel writes to node.textContent.
LoadingText == "Loading widget..."
ModelNotFoundText == "Error displaying widget: model not found"
DisplayErrorText == "Error displaying widget"

VARIABLES
  manager,            \* this._manager: "delegate" (the PromiseDelegate) or Null
  promise,            \* this._manager.promise: Unresolved, or the manager it resolved to
  connected,          \* managers whose `restored` signal has this._rerender connected
  rerenderMimeModel,  \* this._rerenderMimeModel: a bundle or Null
  textContent,        \* this.node.textContent
  hasClass,           \* the node carries the class 'jupyter-widgets'
  isHidden,           \* the panel is hidden
  widgets,            \* the panel's child widgets, in order (a view is named by its call)
  model_id,           \* model.data[mimeType].model_id of every bundle
  restoredStatus,     \* manager.restoredStatus of every manager
  calls,              \* the renderModel calls made so far, in call order
  lastView,           \* history: the call of the most recent addWidget, 0 if none
  lastStep            \* history: the completion or notification that has just run

vars == <<manager, promise, connected, rerenderMimeModel, textContent, hasClass,
          isHidden, widgets, model_id, restoredStatus, calls, lastView, lastStep>>

container == <<textContent, hasClass, isHidden, widgets>>

\* What lastStep records: a completion of a renderModel call (the operation and
\* the call) or a `restored` notification for which _rerender found a bundle
\* (and the call it started, 0 if none); NoStep once any other operation has run.
Step(op, c) == [op |-> op, call |-> c]
NoStep == Step("none", 0)

\* get isDisposed(): this._manager === null
IsDisposedGetter == manager = Null

CallIds == 1..Len(calls)

\* The promise an async function returns: pending, fulfilled or rejected.
Settled(c) == calls[c].pc \in {"fulfilled", "rejected"}

Remove(seq, v) == SelectSeq(seq, LAMBDA x : x # v)

InWidgets(v) == \E i \in 1..Len(widgets) : widgets[i] = v

\* constructor(options, manager?): with a manager the setter runs at once.
Init ==
  /\ manager = "delegate"
  /\ \E m \in Managers \cup {Null} :
        /\ promise = (IF m = Null THEN Unresolved ELSE m)
        /\ connected = (IF m = Null THEN {} ELSE {m})
  /\ rerenderMimeModel = Null
  /\ textContent = ""
  /\ hasClass = FALSE
  /\ isHidden = FALSE
  /\ widgets = <<>>
  /\ model_id \in {[b1 |-> "m1", b2 |-> "m2"], [b1 |-> "m1", b2 |-> ""]}
  /\ restoredStatus \in [Managers -> BOOLEAN]
  /\ calls = <<>>
  /\ lastView = 0
  /\ lastStep = NoStep

\* set manager(value) with a holder that takes every value it is given, the
\* last one winning (a mutant of SetManager).
C14_MutantRebinds(m) ==
  /\ connected' = connected \cup {m}
  /\ promise' = (IF manager # Null THEN m ELSE promise)
  /\ lastStep' = NoStep
  /\ UNCHANGED <<manager, rerenderMimeModel, container, model_id, restoredStatus,
                 calls, lastView>>

\* set manager(value), lines 41-44: connect _rerender to value.restored (a
\* connection that exists is not made twice), then resolve the delegate. A
\* PromiseDelegate resolves once; on a disposed renderer this._manager is null
\* and resolve() throws after the connect.
SetManager(m) ==
  /\ connected' = connected \cup {m}
  /\ promise' = (IF manager # Null /\ promise = Unresolved THEN m ELSE promise)
  /\ lastStep' = NoStep
  /\ UNCHANGED <<manager, rerenderMimeModel, container, model_id, restoredStatus,
                 calls, lastView>>

\* renderModel, line 53, on entry: evaluating this._manager.promise on a
\* disposed renderer throws a TypeError, which an async function turns into a
\* rejected promise; otherwise the call awaits the promise.
NewCall(b, by) ==
  [model |-> b, by |-> by, idAtCall |-> model_id[b],
   overlap |-> (\E c \in CallIds : ~Settled(c)),
   pc |-> (IF manager = Null THEN "rejected" ELSE "awaitManager"),
   path |-> (IF manager = Null THEN "typeError" ELSE "pending"),
   manager |-> Null, wModel |-> Null, displayed |-> Null,
   get_model |-> 0, display_model |-> 0]

\* renderModel, lines 46-53: the synchronous part of a call, up to its first await.
StartRenderModel(b, by) ==
  /\ Len(calls) < MaxCalls
  /\ textContent' = LoadingText
  /\ hasClass' = TRUE
  /\ calls' = Append(calls, NewCall(b, by))

\* renderModel(model), called by the host.
RenderModel(b) ==
  /\ StartRenderModel(b, "host")
  /\ lastStep' = NoStep
  /\ UNCHANGED <<manager, promise, connected, rerenderMimeModel, isHidden, widgets,
                 model_id, restoredStatus, lastView>>

\* Line 55: source.model_id === ''
C5_MutantNeverEmpty(b) == FALSE

HasNoModelId(b) == model_id[b] = ""

\* Lines 53-62: the manager promise is resolved; an empty model id hides the
\* node and returns, any other id is asked of the manager.
AwaitManager(c) ==
  /\ calls[c].pc = "awaitManager"
  /\ promise # Unresolved
  /\ IF HasNoModelId(calls[c].model)
       THEN /\ isHidden' = TRUE
            /\ calls' = [calls EXCEPT ![c].pc = "fulfilled", ![c].path = "hidden",
                                      ![c].manager = promise]
       ELSE /\ isHidden' = isHidden
            /\ calls' = [calls EXCEPT ![c].pc = "awaitGetModel",
                                      ![c].manager = promise,
                                      ![c].wModel = model_id[calls[c].model],
                                      ![c].get_model = @ + 1]
  /\ lastStep' = (IF HasNoModelId(calls[c].model) THEN Step("hidden", c) ELSE NoStep)
  /\ UNCHANGED <<manager, promise, connected, rerenderMimeModel, textContent,
                 hasClass, widgets, model_id, restoredStatus, lastView>>

\* Lines 62, 77-82 with a stored bundle dropped only when it is the call's
\* own (a mutant of GetModelResolved).
C15_MutantClearsOwnBundle(c) ==
  /\ calls[c].pc = "awaitGetModel"
  /\ rerenderMimeModel' = (IF rerenderMimeModel = calls[c].model
                             THEN Null ELSE rerenderMimeModel)
  /\ calls' = [calls EXCEPT ![c].pc = "awaitDisplay", ![c].display_model = @ + 1,
                            ![c].displayed = calls[c].wModel]
  /\ lastStep' = NoStep
  /\ UNCHANGED <<manager, promise, connected, container, model_id, restoredStatus,
                 lastView>>

\* Lines 62, 77-82: get_model resolved; the retry is dropped and display_model called.
GetModelResolved(c) ==
  /\ calls[c].pc = "awaitGetModel"
  /\ rerenderMimeModel' = Null
  /\ calls' = [calls EXCEPT ![c].pc = "awaitDisplay", ![c].display_model = @ + 1,
                            ![c].displayed = calls[c].wModel]
  /\ lastStep' = NoStep
  /\ UNCHANGED <<manager, promise, connected, container, model_id, restoredStatus,
                 lastView>>

\* Lines 63-75, the catch block of get_model, with the error shown whatever
\* restoredStatus is (a mutant of CatchGetModel).
C2_MutantAlwaysTerminal(c) ==
  /\ textContent' = ModelNotFoundText
  /\ hasClass' = TRUE
  /\ rerenderMimeModel' = rerenderMimeModel
  /\ calls' = [calls EXCEPT ![c].pc = "fulfilled",
                            ![c].path = IF restoredStatus[calls[c].manager]
                                          THEN "notFound" ELSE "stored"]

\* Lines 63-75 with the stored bundle dropped when the error is terminal (a
\* mutant of CatchGetModel).
C18_MutantTerminalClears(c) ==
  IF restoredStatus[calls[c].manager]
    THEN /\ textContent' = ModelNotFoundText
         /\ hasClass' = TRUE
         /\ rerenderMimeModel' = Null
         /\ calls' = [calls EXCEPT ![c].pc = "fulfilled", ![c].path = "notFound"]
    ELSE /\ rerenderMimeModel' = calls[c].model
         /\ calls' = [calls EXCEPT ![c].pc = "fulfilled", ![c].path = "stored"]
         /\ UNCHANGED <<textContent, hasClass>>

\* Lines 63-75 without the returns of lines 69 and 74: the catch block falls
\* through to display_model (a mutant of CatchGetModel).
C19_MutantFallsThrough(c) ==
  IF restoredStatus[calls[c].manager]
    THEN /\ textContent' = ModelNotFoundText
         /\ hasClass' = TRUE
         /\ rerenderMimeModel' = rerenderMimeModel
         /\ calls' = [calls EXCEPT ![c].pc = "fulfilled", ![c].path = "notFound",
                                   ![c].display_model = @ + 1]
    ELSE /\ rerenderMimeModel' = calls[c].model
         /\ calls' = [calls EXCEPT ![c].pc = "fulfilled", ![c].path = "stored",
                                   ![c].display_model = @ + 1]
         /\ UNCHANGED <<textContent, hasClass>>

\* Lines 63-75: the catch block of get_model.
CatchGetModel(c) ==
  IF restoredStatus[calls[c].manager]
    THEN /\ textContent' = ModelNotFoundText
         /\ hasClass' = TRUE
         /\ rerenderMimeModel' = rerenderMimeModel
         /\ calls' = [calls EXCEPT ![c].pc = "fulfilled", ![c].path = "notFound"]
    ELSE /\ rerenderMimeModel' = calls[c].model
         /\ calls' = [calls EXCEPT ![c].pc = "fulfilled", ![c].path = "stored"]
         /\ UNCHANGED <<textContent, hasClass>>

\* get_model rejected.
GetModelRejected(c) ==
  /\ calls[c].pc = "awaitGetModel"
  /\ CatchGetModel(c)
  /\ lastStep' = Step("getModelRejected", c)
  /\ UNCHANGED <<manager, promise, connected, isHidden, widgets, model_id,
                 restoredStatus, lastView>>

\* Lines 90-92 without line 91: the view is added, the loading text stays.
C8_MutantKeepsText(c) ==
  /\ textContent' = textContent
  /\ widgets' = Append(Remove(widgets, c), c)
  /\ lastView' = c

\* Lines 90-92 without line 92: the text is cleared, the view is not added.
C10_MutantNoAddWidget(c) ==
  /\ textContent' = ""
  /\ widgets' = widgets
  /\ lastView' = lastView

\* Lines 90-92: clear the loading message and add the view to the panel.
AttachView(c) ==
  /\ textContent' = ""
  /\ widgets' = Append(Remove(widgets, c), c)
  /\ lastView' = c

\* Lines 82, 90-101 with the node shown again when a view is added (a mutant
\* of DisplayModelResolved).
C17_MutantShows(c) ==
  /\ calls[c].pc = "awaitDisplay"
  /\ AttachView(c)
  /\ isHidden' = FALSE
  /\ calls' = [calls EXCEPT ![c].pc = "fulfilled", ![c].path = "attached"]
  /\ lastStep' = Step("displayModelResolved", c)
  /\ UNCHANGED <<manager, promise, connected, rerenderMimeModel, hasClass,
                 model_id, restoredStatus>>

\* Lines 82, 90-101: display_model resolved with a new view, which is added to
\* the panel and whose `disposed` signal gets the handler of lines 96-99.
DisplayModelResolved(c) ==
  /\ calls[c].pc = "awaitDisplay"
  /\ AttachView(c)
  /\ calls' = [calls EXCEPT ![c].pc = "fulfilled", ![c].path = "attached"]
  /\ lastStep' = Step("displayModelResolved", c)
  /\ UNCHANGED <<manager, promise, connected, rerenderMimeModel, hasClass, isHidden,
                 model_id, restoredStatus>>

\* Lines 83-88 with the bundle kept for a retry, as the catch block of
\* get_model does (a mutant of CatchDisplayModel).
C4_MutantStoresBundle(c) ==
  /\ textContent' = DisplayErrorText
  /\ hasClass' = TRUE
  /\ rerenderMimeModel' = calls[c].model
  /\ calls' = [calls EXCEPT ![c].pc = "fulfilled", ![c].path = "displayError"]

\* Lines 83-88: the catch block of display_model.
CatchDisplayModel(c) ==
  /\ textContent' = DisplayErrorText
  /\ hasClass' = TRUE
  /\ rerenderMimeModel' = rerenderMimeModel
  /\ calls' = [calls EXCEPT ![c].pc = "fulfilled", ![c].path = "displayError"]

\* display_model rejected.
DisplayModelRejected(c) ==
  /\ calls[c].pc = "awaitDisplay"
  /\ CatchDisplayModel(c)
  /\ lastStep' = Step("displayModelRejected", c)
  /\ UNCHANGED <<manager, promise, connected, isHidden, widgets, model_id,
                 restoredStatus, lastView>>

\* Lines 96-99 without line 98: the node is hidden, the model id stays.
C9_MutantKeepsModelId(v) ==
  /\ isHidden' = TRUE
  /\ model_id' = model_id

\* Lines 96-99: the handler connected to the view's `disposed` signal.
OnViewDisposed(v) ==
  /\ isHidden' = TRUE
  /\ model_id' = [model_id EXCEPT ![calls[v].model] = ""]

\* The view of call v is disposed by its owner: a disposed widget leaves its
\* parent panel, and its `disposed` signal runs the handler.
ViewDisposed(v) ==
  /\ InWidgets(v)
  /\ widgets' = Remove(widgets, v)
  /\ OnViewDisposed(v)
  /\ lastStep' = NoStep
  /\ UNCHANGED <<manager, promise, connected, rerenderMimeModel, textContent,
                 hasClass, restoredStatus, calls, lastView>>

\* super.dispose(), line 120: the panel's own disposal, which is not in this
\* file. Whether it drops the connections made with this renderer as receiver
\* is left open; the node, its children and the manager are left as they are.
SuperDispose ==
  /\ connected' \in {connected, {}}
  /\ UNCHANGED <<promise, rerenderMimeModel, container, model_id, restoredStatus,
                 calls, lastView>>

\* dispose() without the isDisposed test of lines 117-119: super.dispose()
\* runs at every call (a mutant of Dispose).
C11_MutantNoGuard ==
  /\ SuperDispose
  /\ manager' = Null
  /\ lastStep' = NoStep

\* dispose(), lines 116-122.
Dispose ==
  /\ IF IsDisposedGetter
       THEN UNCHANGED <<manager, promise, connected, rerenderMimeModel, container,
                        model_id, restoredStatus, calls, lastView>>
       ELSE /\ SuperDispose
            /\ manager' = Null
  /\ lastStep' = NoStep

\* _rerender(), lines 124-133: with a stored bundle, clear the text, remove the
\* class and call renderModel, whose first statements set both again.
Rerender ==
  IF rerenderMimeModel # Null
    THEN StartRenderModel(rerenderMimeModel, "rerender")
    ELSE UNCHANGED <<textContent, hasClass, calls>>

\* manager m emits `restored`: a connected renderer runs _rerender.
Restored(m) ==
  /\ IF m \in connected
       THEN Rerender
       ELSE UNCHANGED <<textContent, hasClass, calls>>
  /\ lastStep' = (IF m \in connected /\ rerenderMimeModel # Null
                   THEN Step("restored", IF Len(calls') > Len(calls) THEN Len(calls') ELSE 0)
                   ELSE NoStep)
  /\ UNCHANGED <<manager, promise, connected, rerenderMimeModel, isHidden, widgets,
                 model_id, restoredStatus, lastView>>

\* The manager's restoredStatus changes (a restoration starts or ends).
SetRestoredStatus(m) ==
  /\ restoredStatus' = [restoredStatus EXCEPT ![m] = ~@]
  /\ lastStep' = NoStep
  /\ UNCHANGED <<manager, promise, connected, rerenderMimeModel, container, model_id,
                 calls, lastView>>

Next ==
  \/ \E m \in Managers : SetManager(m)
  \/ \E b \in Bundles : RenderModel(b)
  \/ \E c \in CallIds : AwaitManager(c)
  \/ \E c \in CallIds : GetModelResolved(c)
  \/ \E c \in CallIds : GetModelRejected(c)
  \/ \E c \in CallIds : DisplayModelResolved(c)
  \/ \E c \in CallIds : DisplayModelRejected(c)
  \/ \E v \in CallIds : ViewDisposed(v)
  \/ Dispose
  \/ \E m \in Managers : Restored(m)
  \/ \E m \in Managers : SetRestoredStatus(m)

Spec == Init /\ [][Next]_vars

\* The continuation of call c after whichever await it is suspended at.
Continue(c) ==
  \/ AwaitManager(c)
  \/ GetModelResolved(c) \/ GetModelRejected(c)
  \/ DisplayModelResolved(c) \/ DisplayModelRejected(c)

\* The continuation of an await runs once its promise is settled, and the
\* manager settles the queries it was asked.
Fairness ==
  \A c \in 1..MaxCalls : WF_vars(c \in CallIds /\ Continue(c))

FairSpec == Init /\ [][Next]_vars /\ Fairness

(***************************************************************************)
(* The claims.                                                             *)
(***************************************************************************)

\* A step of call c that is the one lastStep records.
Ran(op, c) == lastStep = Step(op, c)

\* C1: renderModel never completes with a rejection: every call's promise is
\* pending or fulfilled, whatever the manager does and whenever the call is
\* made (manager bound or not, before or after dispose(), by the host or by
\* _rerender).
C1_NeverRejects ==
  \A c \in CallIds : calls[c].pc # "rejected"

\* C2: when get_model fails while restoredStatus is false, the step changes
\* nothing of the container (no error text: the text is still 'Loading
\* widget...' when no other call ran meanwhile) and stores the call's bundle;
\* and a `restored` emitted by a connected manager while a bundle is stored
\* starts exactly one new renderModel, and it is on that bundle.
C2_TransientFailureStep ==
  \A c \in CallIds :
    (calls[c].pc = "awaitGetModel" /\ lastStep' = Step("getModelRejected", c)
       /\ ~restoredStatus[calls[c].manager])
    => /\ container' = container
       /\ textContent' \notin {ModelNotFoundText, DisplayErrorText}
            \/ textContent \in {ModelNotFoundText, DisplayErrorText}
       /\ (c = Len(calls) /\ ~calls[c].overlap) => textContent' = LoadingText
       /\ rerenderMimeModel' = calls[c].model
       /\ calls'[c].pc = "fulfilled"

C2_RestoredStep ==
  (lastStep'.op = "restored" /\ vars' # vars)
  => /\ rerenderMimeModel # Null
     /\ Len(calls') = Len(calls) + 1
     /\ lastStep'.call = Len(calls')
     /\ \A c \in CallIds : calls'[c] = calls[c]
     /\ calls'[Len(calls')].model = rerenderMimeModel
     /\ calls'[Len(calls')].by = "rerender"
     /\ rerenderMimeModel' = rerenderMimeModel

C2_TransientFailureIsRetriedOnce ==
  [][C2_TransientFailureStep /\ C2_RestoredStep]_vars

\* C2's case: a bundle was stored by a failed call and `restored` has just
\* started the retry of that bundle.
C2_Witness ==
  \E c \in CallIds : \E r \in CallIds :
    /\ calls[c].path = "stored"
    /\ calls[r].by = "rerender" /\ calls[r].model = calls[c].model
    /\ lastStep.op = "restored" /\ lastStep.call = r
    /\ textContent = LoadingText

\* C3: when get_model fails while restoredStatus is true, the text is the
\* 'model not found' message and, after the call, no bundle is stored for a
\* retry (so that a later `restored` starts nothing), whatever happened before.
C3_TerminalFailureLeavesNoRetry ==
  \A c \in CallIds :
    (Ran("getModelRejected", c) /\ calls[c].path = "notFound")
    => textContent = ModelNotFoundText /\ rerenderMimeModel = Null

\* C4 as claimed: after get_model succeeded and display_model failed, the text
\* is the generic message and the call's bundle is not stored for a retry,
\* also when other calls overlap.
C4_NoRetryAfterDisplayFailure ==
  \A c \in CallIds :
    Ran("displayModelRejected", c)
    => textContent = DisplayErrorText /\ rerenderMimeModel # calls[c].model

\* C4 as amended: after get_model succeeded and display_model failed, the text
\* is the generic message and the call itself stored nothing: its bundle is
\* the stored one only if another call on that bundle failed its get_model
\* while restoredStatus was false.
C4_DisplayFailureStoresNothing ==
  \A c \in CallIds :
    Ran("displayModelRejected", c)
    => /\ textContent = DisplayErrorText
       /\ hasClass
       /\ calls[c].pc = "fulfilled"
       /\ rerenderMimeModel = calls[c].model
            => \E o \in CallIds \ {c} :
                  calls[o].model = calls[c].model /\ calls[o].path = "stored"

\* C4's case: display_model has just failed for a call that overlapped another.
C4_Witness ==
  \E c \in CallIds :
    /\ Ran("displayModelRejected", c)
    /\ calls[c].path = "displayError"
    /\ Len(calls) > 1
    /\ rerenderMimeModel # calls[c].model

C6_SuspendedUntilManagerBound ==
  promise = Unresolved
  => /\ \A c \in CallIds : calls[c].pc = "awaitManager"
     /\ calls # <<>> => textContent = LoadingText /\ hasClass
     /\ ~isHidden
     /\ widgets = <<>>
     /\ rerenderMimeModel = Null

\* C7: the panel holds at most one view: none, or the view of the most recent
\* successful render.
C7_AtMostOneView ==
  widgets = <<>> \/ widgets = <<lastView>>

\* C8: when get_model and display_model both resolved for a call, then at its
\* completion the text is empty, its view is in the panel and the class is set.
C8_SuccessAttachesView ==
  \A c \in CallIds :
    Ran("displayModelResolved", c)
    => /\ textContent = ""
       /\ InWidgets(c)
       /\ hasClass
       /\ calls[c].pc = "fulfilled"
       /\ calls[c].manager \in Managers

\* C8's case: a call has just completed by attaching its view.
C8_Witness ==
  \E c \in CallIds :
    /\ Ran("displayModelResolved", c)
    /\ calls[c].get_model = 1 /\ calls[c].display_model = 1
    /\ widgets = <<c>>

\* C9: once the view of a successful render is disposed, the node is hidden
\* and the rendered bundle's model_id is '', and every renderModel of that
\* bundle made afterwards queries nothing and, once past the manager, has
\* hidden the node and returned.
C9_DisposedViewShortCircuitsLaterRenders ==
  \A v \in CallIds :
    (calls[v].path = "attached" /\ ~InWidgets(v))
    => /\ isHidden
       /\ model_id[calls[v].model] = ""
       /\ \A c \in CallIds :
            (c > v /\ calls[c].model = calls[v].model /\ ~Settled(c))
            => calls[c].pc = "awaitManager" \/ calls[c].idAtCall # ""
       /\ \A c \in CallIds :
            (calls[c].model = calls[v].model /\ calls[c].idAtCall = "")
            => /\ calls[c].get_model = 0 /\ calls[c].display_model = 0
               /\ calls[c].pc = "fulfilled" => calls[c].path = "hidden"

\* C9's case: a view was disposed and a later render of its bundle has just
\* short-circuited.
C9_Witness ==
  \E v \in CallIds : \E c \in CallIds :
    /\ calls[v].path = "attached" /\ ~InWidgets(v)
    /\ c > v /\ calls[c].model = calls[v].model /\ calls[c].idAtCall = ""
    /\ Ran("hidden", c) /\ calls[c].path = "hidden"

\* The state right after call c attached its view.
AttachedNow(c) ==
  /\ Ran("displayModelResolved", c)
  /\ InWidgets(c)
  /\ textContent = ""

\* C10: a retry started by `restored` (after a get_model that failed while
\* restoredStatus was false) eventually completes, and when the manager does
\* not fail it again and the bundle still has its model id, it completes with
\* its view in the panel and the text cleared.
C10_RetryRecovers ==
  \A c \in 1..MaxCalls :
    (c \in CallIds /\ calls[c].by = "rerender" /\ calls[c].pc = "awaitManager")
    ~> (c \in CallIds /\ (\/ AttachedNow(c)
                          \/ calls[c].path \in {"notFound", "stored",
                                                "displayError", "hidden"}))

\* C10's case: the first render stored its bundle with the loading text kept,
\* and the retry of that bundle has just attached its view.
C10_Witness ==
  \E c \in CallIds : \E r \in CallIds :
    /\ calls[c].path = "stored"
    /\ calls[r].by = "rerender" /\ calls[r].model = calls[c].model
    /\ AttachedNow(r)
    /\ rerenderMimeModel = Null

\* The adapter's own state and what it shows.
adapter ==
  <<manager, promise, connected, rerenderMimeModel, container>>

\* C11: dispose() is idempotent. isDisposed is false until the first
\* dispose(), true from then on (nothing but dispose() changes it, and nothing
\* changes it back), and a dispose() on a disposed renderer leaves the
\* renderer's whole state (holder, subscriptions, stored bundle, text, class,
\* visibility, views) and everything else as it was.
C11_DisposeStep ==
  /\ IsDisposedGetter => IsDisposedGetter'
  /\ (~IsDisposedGetter /\ IsDisposedGetter') => Dispose
  /\ Dispose => IsDisposedGetter'
  /\ (Dispose /\ IsDisposedGetter)
       => UNCHANGED <<adapter, model_id, restoredStatus, calls, lastView>>

C11_DisposeIsIdempotent ==
  ~IsDisposedGetter /\ [][C11_DisposeStep]_vars

\* C11's case: a disposed renderer that still has subscriptions, a stored
\* bundle and a view, none of which a further dispose() may touch.
C11_Witness ==
  /\ IsDisposedGetter
  /\ connected # {}
  /\ rerenderMimeModel # Null
  /\ widgets # <<>>
  /\ lastStep = NoStep

\* The host binds a manager: the setter runs as long as a call of it would
\* change something. With the continuations of Fairness, this is all a
\* suspended call waits for.
BindFairness ==
  WF_vars(\E m \in Managers : SetManager(m))

BindSpec == Init /\ [][Next]_vars /\ Fairness /\ BindFairness

\* C13: a renderModel call that is suspended when the renderer is disposed
\* eventually completes, at whichever await it is suspended (the manager
\* promise, get_model, display_model), when the host goes on binding a manager
\* and the manager settles its queries.
C13_InFlightCallCompletes ==
  \A c \in 1..MaxCalls :
    (c \in CallIds /\ IsDisposedGetter /\ ~Settled(c))
    ~> (c \in CallIds /\ Settled(c))

\* The part of C13 that holds: a call suspended at get_model or display_model
\* when the renderer is disposed eventually completes.
C13_QueryingCallCompletes ==
  \A c \in 1..MaxCalls :
    (c \in CallIds /\ IsDisposedGetter
       /\ calls[c].pc \in {"awaitGetModel", "awaitDisplay"})
    ~> (c \in CallIds /\ Settled(c))

\* C14: the manager promise resolves once, with the first manager bound.
\* Every call that is past the promise holds that manager, and it is that
\* manager's restoredStatus that decides between the terminal and the
\* transient failure of get_model. A later call of the setter still connects
\* _rerender to the manager it is given, and `restored` from any connected
\* manager, the bound one or not, starts the retry of the stored bundle.
C14_CallsUseFirstManager ==
  \A c \in CallIds :
    /\ calls[c].manager \in {Null, promise}
    /\ (calls[c].get_model > 0 \/ calls[c].display_model > 0
          \/ calls[c].pc \in {"awaitGetModel", "awaitDisplay", "fulfilled"})
       => calls[c].manager = promise /\ promise \in Managers

C14_SetterStep ==
  /\ promise # Unresolved => promise' = promise
  /\ \A m \in Managers : SetManager(m) => m \in connected'
  /\ \A m \in Managers :
       (Restored(m) /\ m \in connected /\ rerenderMimeModel # Null)
       => /\ Len(calls') = Len(calls) + 1
          /\ calls'[Len(calls')].model = rerenderMimeModel
          /\ calls'[Len(calls')].by = "rerender"
  /\ \A c \in CallIds :
       (calls[c].pc = "awaitGetModel" /\ calls'[c].pc = "fulfilled")
       => (calls'[c].path = "notFound" <=> restoredStatus[promise])

C14_ManagerResolvedOnce ==
  [](C14_CallsUseFirstManager) /\ [][C14_SetterStep]_vars

\* C14's case: M1 was bound first and M2 after it; a call failed get_model
\* transiently by M1's restoredStatus while M2's was true, and the retry
\* started by `restored` has asked M1 again.
C14_Witness ==
  /\ promise = "M1"
  /\ connected = {"M1", "M2"}
  /\ restoredStatus["M2"]
  /\ \E c \in CallIds : \E r \in CallIds :
       /\ calls[c].path = "stored" /\ calls[c].manager = "M1"
       /\ calls[r].by = "rerender" /\ calls[r].manager = "M1"
       /\ calls[r].get_model = 1

\* C15: the stored bundle is one slot: it holds no bundle or one. When the
\* get_model of any call resolves, the slot is empty right after, whichever
\* bundle it held, the bundle of another call included; and with the slot
\* empty, `restored` starts no call.
C15_SlotStep ==
  /\ \A c \in CallIds :
       (calls[c].pc = "awaitGetModel" /\ calls'[c].pc = "awaitDisplay")
       => rerenderMimeModel' = Null
  /\ rerenderMimeModel = Null
       => \/ Len(calls') = Len(calls)
          \/ calls'[Len(calls')].by = "host"

C15_SingleSlotClearedBySuccess ==
  [](rerenderMimeModel \in Bundles \cup {Null}) /\ [][C15_SlotStep]_vars

\* C15's case: a call failed transiently and stored its bundle, and the
\* get_model of a call on the other bundle has resolved and emptied the slot.
C15_Witness ==
  \E c \in CallIds : \E o \in CallIds :
    /\ calls[o].path = "stored"
    /\ calls[c].model # calls[o].model
    /\ calls[c].pc = "awaitDisplay"
    /\ rerenderMimeModel = Null

\* Two calls overlapped (the second started while the first was suspended)
\* and both have completed.
BothCompleted ==
  /\ Len(calls) = 2
  /\ calls[2].overlap
  /\ \A c \in CallIds : Settled(c)

\* C16: when two overlapping calls have both completed, the container is as
\* the call that ran its final step last wrote it: after an attach the text
\* is empty and the panel holds that call's view and no other, after an error
\* step the text is that error's message, after a hide the node is hidden.
C16_LastFinalStepWins ==
  BothCompleted
  => \A c \in CallIds :
       /\ Ran("displayModelResolved", c) => textContent = "" /\ widgets = <<c>>
       /\ Ran("displayModelRejected", c) => textContent = DisplayErrorText
       /\ (Ran("getModelRejected", c) /\ calls[c].path = "notFound")
            => textContent = ModelNotFoundText
       /\ Ran("hidden", c) => isHidden

\* What holds of C16's final state: the last final step's own writes are in
\* place, next to what the other call left.
C16_LastFinalStepWrites ==
  BothCompleted
  => \A c \in CallIds :
       /\ Ran("displayModelResolved", c)
            => textContent = "" /\ widgets[Len(widgets)] = c
       /\ Ran("displayModelRejected", c) => textContent = DisplayErrorText
       /\ (Ran("getModelRejected", c) /\ calls[c].path = "notFound")
            => textContent = ModelNotFoundText
       /\ Ran("hidden", c) => isHidden

\* C17: hiding is permanent. No step shows a hidden node again; a call that
\* completes with success on a hidden node clears the text and adds its view,
\* and the node stays hidden.
C17_HiddenStep ==
  isHidden
  => /\ isHidden'
     /\ \A c \in CallIds :
          (calls[c].pc = "awaitDisplay" /\ calls'[c].path = "attached")
          => textContent' = "" /\ widgets' # <<>> /\ widgets'[Len(widgets')] = c

C17_HidingIsPermanent ==
  [][C17_HiddenStep]_vars

\* C17's case: a call has just added its view to a node that was hidden
\* before (adding a view hides nothing).
C17_Witness ==
  \E c \in CallIds :
    /\ isHidden
    /\ Ran("displayModelResolved", c)
    /\ InWidgets(c)
    /\ textContent = ""

\* C18: a stored bundle is dropped by a resolved get_model and by nothing
\* else. A call that ends by hiding the node (empty model id) or by the
\* terminal 'model not found' error leaves the slot as it was, as does every
\* step of a call that is suspended and every other operation; and while a
\* bundle is stored, each `restored` of a connected manager starts a call on
\* it and leaves it stored.
C18_StoredStep ==
  /\ (rerenderMimeModel # Null /\ rerenderMimeModel' = Null)
       => \E c \in CallIds :
            calls[c].pc = "awaitGetModel" /\ calls'[c].pc = "awaitDisplay"
  /\ \A c \in CallIds :
       (~Settled(c) /\ calls'[c].path \in {"hidden", "notFound"})
       => rerenderMimeModel' = rerenderMimeModel
  /\ \A m \in Managers :
       (Restored(m) /\ m \in connected /\ rerenderMimeModel # Null)
       => /\ rerenderMimeModel' = rerenderMimeModel
          /\ Len(calls') = Len(calls) + 1
          /\ calls'[Len(calls')].model = rerenderMimeModel

C19_QueryOrder ==
  \A c \in CallIds :
    /\ calls[c].get_model <= 1 /\ calls[c].display_model <= 1
    /\ promise = Unresolved
         => calls[c].get_model = 0 /\ calls[c].display_model = 0
    /\ calls[c].get_model = 1
         => /\ calls[c].manager = promise
            /\ calls[c].wModel = calls[c].idAtCall /\ calls[c].wModel # ""
    /\ calls[c].pc = "awaitGetModel"
         => calls[c].get_model = 1 /\ calls[c].display_model = 0
    /\ calls[c].display_model = 1
         => /\ calls[c].get_model = 1
            /\ calls[c].path \in {"pending", "attached", "displayError"}
            /\ calls[c].pc \in {"awaitDisplay", "fulfilled"}
            /\ calls[c].displayed = calls[c].wModel
    /\ calls[c].path \in {"attached", "displayError"} => calls[c].display_model = 1
    /\ InWidgets(c) => calls[c].path = "attached"

\* C19's case: a retry has gone through get_model and display_model in turn
\* and its view is in the panel.
C19_Witness ==
  \E c \in CallIds :
    /\ calls[c].by = "rerender"
    /\ calls[c].get_model = 1 /\ calls[c].display_model = 1
    /\ calls[c].displayed = "m1"
    /\ calls[c].path = "attached" /\ InWidgets(c)

====
